---- MODULE Spec2Model ----
(***************************************************************************)
(* A model of clean-resume: the masking routes (app/routes/masking.py),    *)
(* PDFMasker (app/services/pdf_masking.py) and ImageMasker                 *)
(* (app/services/image_masking.py).                                        *)
(*                                                                         *)
(* Rectangles are tuples <<x, y, w, h>>.  A model prediction is a box      *)
(* <<x0, y0, x1, y1>> whose coordinates are counted in HALF pixels, so     *)
(* that the ties of Python's round() are inputs of the model.              *)
(***************************************************************************)
EXTENDS Integers, Sequences, FiniteSets, TLC

VARIABLES
    pc,            \* where the program is
    request,       \* the HTTP request being served
    response,      \* the HTTP response returned
    masker,        \* maskers constructed and mask_file calls made for the request
    pdf_document,  \* the fitz document of PDFMasker.mask_data
    page,          \* the page and the position in its image list
    call           \* the last call made (its arguments and what it returned)

vars == <<pc, request, response, masker, pdf_document, page, call>>

\* no value: None for a string, Nil for a record
None == "none"

Nil == [nil |-> TRUE]

(***************************************************************************)
(* Bounds of the model                                                     *)
(***************************************************************************)
MaxBoxes == 2

MaxPages == 2

MaxImagesPerPage == 2

(***************************************************************************)
(* Program constants                                                       *)
(***************************************************************************)
\* the seven cascade classifiers of app/__init__.py
NumClassifiers == 7

Classifiers == 1..NumClassifiers

(***************************************************************************)
(* Sequences                                                               *)
(***************************************************************************)
SeqsUpTo(S, n) == UNION {[1..k -> S] : k \in 0..n}

(***************************************************************************)
(* ImageMasker.is_overlapping_full_image: rect[2] / w > 0.7 or             *)
(* rect[3] / h > 0.7, on integers (k / n > 0.7 in doubles iff 10k > 7n     *)
(* for pixel-sized k and n).  size is <<width, height>>.                   *)
(***************************************************************************)
IsOverlappingFullImageAnd(rect, size) ==
    (10 * rect[3] > 7 * size[1]) /\ (10 * rect[4] > 7 * size[2])

IsOverlappingFullImage(rect, size) ==
    (10 * rect[3] > 7 * size[1]) \/ (10 * rect[4] > 7 * size[2])

(***************************************************************************)
(* int(round(i, 0)) of a coordinate given in half pixels: Python rounds a  *)
(* tie to the even neighbour.                                              *)
(***************************************************************************)
RoundHalfEven(h) ==
    IF h % 2 = 0 THEN h \div 2
    ELSE LET lo == (h - 1) \div 2
         IN  IF lo % 2 = 0 THEN lo ELSE lo + 1

\* box -> rect of find_rects_of_interest (lines 141-142)
BoxToRect(box) ==
    LET b == [i \in 1..4 |-> RoundHalfEven(box[i])]
    IN  <<b[1], b[2], b[3] - b[1], b[4] - b[2]>>

(***************************************************************************)
(* ImageMasker.find_rects_of_interest.  boxes are the predictions the      *)
(* detection model returns for the image, in model output order.  The      *)
(* result carries the number of model inferences the call performed.       *)
(***************************************************************************)
RECURSIVE FilterBoxes(_, _, _)
FilterBoxes(boxes, size, allow_full_mask) ==
    IF boxes = <<>> THEN <<>>
    ELSE LET rect == BoxToRect(Head(boxes))
             rest == FilterBoxes(Tail(boxes), size, allow_full_mask)
         IN  IF allow_full_mask \/ ~IsOverlappingFullImage(rect, size)
             THEN <<rect>> \o rest
             ELSE rest

FindRectsOfInterestNoShortCircuit(size, allow_full_mask, boxes) ==
    [rects |-> FilterBoxes(boxes, size, allow_full_mask), inferences |-> 1]

FindRectsOfInterest(size, allow_full_mask, boxes) ==
    IF allow_full_mask
    THEN [rects |-> << <<0, 0, size[1], size[2]>> >>, inferences |-> 0]
    ELSE [rects |-> FilterBoxes(boxes, size, allow_full_mask), inferences |-> 1]

(***************************************************************************)
(* ImageMasker.detect_faces.  results[c] is what classifier c returns for  *)
(* the crop when it is asked.  invoked lists the classifiers asked.        *)
(***************************************************************************)
RECURSIVE DetectFacesFrom(_, _, _)
DetectFacesFrom(results, c, invoked) ==
    IF c > Len(results) THEN [rects |-> <<>>, invoked |-> invoked]
    ELSE IF Len(results[c]) > 0
         THEN [rects |-> results[c], invoked |-> Append(invoked, c)]
         ELSE DetectFacesFrom(results, c + 1, Append(invoked, c))

RECURSIVE DetectFacesAllFrom(_, _, _, _)
DetectFacesAllFrom(results, c, invoked, rects) ==
    IF c > Len(results) THEN [rects |-> rects, invoked |-> invoked]
    ELSE DetectFacesAllFrom(results, c + 1, Append(invoked, c), rects \o results[c])

DetectFacesNoEarlyReturn(results) == DetectFacesAllFrom(results, 1, <<>>, <<>>)

DetectFaces(results) == DetectFacesFrom(results, 1, <<>>)

(***************************************************************************)
(* image[y:y+h, x:x+w] of numpy on an image of the given size: a negative  *)
(* index counts from the end, and both ends are clipped to the axis.       *)
(* The crop is <<x0, y0, w, h>>, the part of the image it shows.           *)
(***************************************************************************)
SliceIndex(i, n) ==
    IF i < 0 THEN (IF i + n < 0 THEN 0 ELSE i + n)
    ELSE IF i > n THEN n ELSE i

SliceSpan(start, stop, n) ==
    LET a == SliceIndex(start, n)
        b == SliceIndex(stop, n)
    IN  <<a, IF b > a THEN b - a ELSE 0>>

Crop(rect, size) ==
    LET xs == SliceSpan(rect[1], rect[1] + rect[3], size[1])
        ys == SliceSpan(rect[2], rect[2] + rect[4], size[2])
    IN  <<xs[1], ys[1], xs[2], ys[2]>>

CropIsEmpty(crop) == crop[3] = 0 \/ crop[4] = 0

(***************************************************************************)
(* ImageMasker.detect_maskable_areas.  faces[i] holds, for the i-th area   *)
(* of interest, what each classifier returns for its crop.                 *)
(***************************************************************************)
TranslateSwapped(d, rect) == <<d[1] + rect[2], d[2] + rect[1], d[3], d[4]>>

\* line 113: (d[0] + rect[0], d[1] + rect[1], d[2], d[3])
Translate(d, rect) == <<d[1] + rect[1], d[2] + rect[2], d[3], d[4]>>

RECURSIVE DetectFrom(_, _, _, _, _)
DetectFrom(areas_of_interest, faces, i, areas, detected_gizmos) ==
    IF i > Len(areas_of_interest)
    THEN [areas |-> areas, detected_gizmos |-> detected_gizmos]
    ELSE LET rect == areas_of_interest[i]
             detected == DetectFaces(faces[i]).rects
         IN  IF Len(detected) > 0
             THEN DetectFrom(areas_of_interest, faces, i + 1,
                             Append(areas, rect),
                             detected_gizmos \o
                               [k \in 1..Len(detected) |-> Translate(detected[k], rect)])
             ELSE DetectFrom(areas_of_interest, faces, i + 1, areas, detected_gizmos)

DetectMaskableAreasKeepAll(areas_of_interest, faces) ==
    [areas |-> areas_of_interest,
     detected_gizmos |-> DetectFrom(areas_of_interest, faces, 1, <<>>, <<>>).detected_gizmos]

DetectMaskableAreas(areas_of_interest, faces) ==
    DetectFrom(areas_of_interest, faces, 1, <<>>, <<>>)

(***************************************************************************)
(* ImageMasker.mask_data.  The image is <<width, height>>; the oracle      *)
(* holds what the collaborators answer in this call: fault (which step     *)
(* raises, if any), boxes (the model's predictions) and faces (the         *)
(* classifiers' answers per area of interest).  The encoded result is      *)
(* described by its format, the areas filled and the outlines drawn.       *)
(***************************************************************************)
Raised(why) == [raised |-> TRUE, why |-> why]

DrawGizmosAndMask(should_draw_gizmos, areas_of_interest, areas, detected_faces) ==
    [filled |-> areas,
     outlines |-> IF should_draw_gizmos
                  THEN <<areas_of_interest, areas, detected_faces>> ELSE <<>>]

\* lines 61-66: the three draw_gizmos calls, or mask_areas
Draw(should_draw_gizmos, areas_of_interest, areas, detected_faces) ==
    IF should_draw_gizmos
    THEN [filled |-> <<>>, outlines |-> <<areas_of_interest, areas, detected_faces>>]
    ELSE [filled |-> areas, outlines |-> <<>>]

MaskData(size, extension, allow_full_mask, should_draw_gizmos, oracle) ==
    IF oracle.fault = "decode" THEN Raised("decode")
    ELSE IF oracle.fault = "model" /\ ~allow_full_mask THEN Raised("model")
    ELSE
      LET found == FindRectsOfInterest(size, allow_full_mask, oracle.boxes)
          areas_of_interest == found.rects
      IN  IF oracle.fault = "classifier" /\ Len(areas_of_interest) > 0
          THEN Raised("classifier")
          ELSE
            LET det == DetectMaskableAreas(areas_of_interest, oracle.faces)
                drawn == Draw(should_draw_gizmos, areas_of_interest, det.areas,
                              det.detected_gizmos)
            IN  [raised |-> FALSE,
                 bytes |-> [format |-> extension,
                            size |-> size,
                            encoder |-> "cv2.imencode",
                            filled |-> drawn.filled,
                            outlines |-> drawn.outlines],
                 count |-> Len(det.areas),
                 inferences |-> found.inferences,
                 areas_of_interest |-> areas_of_interest,
                 areas |-> det.areas,
                 detected_faces |-> det.detected_gizmos]

(***************************************************************************)
(* The inputs: image sizes, the detection model's predictions and the      *)
(* classifiers' answers.                                                   *)
(***************************************************************************)
ImageSizes == {<<4, 4>>, <<10, 10>>, <<8, 10>>}

\* <<from, to>> of a prediction along an axis of n pixels, in half pixels
Spans(n) ==
    LET k == (7 * n) \div 10
    IN  { <<2, 6>>,                   \* 1 .. 3
          <<0, 2 * k>>,               \* as long as 70% allows
          <<0, 2 * k + 2>>,           \* one pixel longer
          <<1, 2 * k + 1>>,           \* 0.5 .. k + 0.5: both ends are ties
          <<-3, 4>>,                  \* -1.5 .. 2: starts before the axis
          <<-2, 2>>,                  \* -1 .. 1
          <<2 * n - 2, 2 * n + 2>> }  \* n - 1 .. n + 1: ends after the axis

\* What the model can return: the corners of (cx, cy, w, h) in [0, 1]^4
\* scaled to the image, i.e. 0 <= (from + to) / 2 <= n and to - from <= n.
IsModelSpan(s, n) ==
    /\ s[1] <= s[2]
    /\ s[1] + s[2] >= 0
    /\ s[1] + s[2] <= 4 * n
    /\ s[2] - s[1] <= 2 * n

ModelSpans(n) == {s \in Spans(n) : IsModelSpan(s, n)}

MakeBox(xs, ys) == <<xs[1], ys[1], xs[2], ys[2]>>

\* every span along one axis with a short and a long span along the other
FineBoxes(size) ==
    LET X == ModelSpans(size[1])
        Y == ModelSpans(size[2])
        x2 == {<<2, 6>>, <<0, 2 * ((7 * size[1]) \div 10) + 2>>}
        y2 == {<<2, 6>>, <<0, 2 * ((7 * size[2]) \div 10) + 2>>}
    IN  {MakeBox(xs, ys) : xs \in X, ys \in y2} \cup
        {MakeBox(xs, ys) : xs \in x2, ys \in Y}

IsModelBox(box, size) ==
    /\ IsModelSpan(<<box[1], box[3]>>, size[1])
    /\ IsModelSpan(<<box[2], box[4]>>, size[2])

CoarseBoxes(size) ==
  {b \in
    { MakeBox(<<2, 6>>, <<2, 6>>),
      MakeBox(<<-3, 4>>, <<2, 6>>),
      MakeBox(<<-2, 2>>, <<-2, 2>>),
      MakeBox(<<2 * size[1] - 2, 2 * size[1] + 2>>, <<2, 6>>),
      MakeBox(<<1, 2 * ((7 * size[1]) \div 10) + 1>>, <<2, 6>>),
      MakeBox(<<0, 2 * ((7 * size[1]) \div 10) + 2>>, <<0, 2>>) } :
    IsModelBox(b, size)}

\* what one classifier can return for a crop: rectangles inside the crop
FaceLists(crop) ==
    IF CropIsEmpty(crop) THEN {<<>>}
    ELSE LET whole == <<0, 0, crop[3], crop[4]>>
             corner == <<crop[3] - 1, crop[4] - 1, 1, 1>>
         IN  {<<>>, <<whole>>, <<corner, whole>>}

\* the classifiers' answers for one crop: nobody matches, only classifier k
\* matches, or every classifier from k on matches
VerifierResults(crop, K) ==
    {[c \in Classifiers |-> IF c = k THEN L ELSE <<>>] :
        k \in K, L \in FaceLists(crop)} \cup
    {[c \in Classifiers |-> IF c >= k THEN L ELSE <<>>] :
        k \in K, L \in FaceLists(crop)}

RECURSIVE FacesFor(_, _, _)
FacesFor(rects, size, K) ==
    IF rects = <<>> THEN {<<>>}
    ELSE {<<r>> \o t : r \in VerifierResults(Crop(Head(rects), size), K),
                        t \in FacesFor(Tail(rects), size, K)}

Faults == {"none", "decode", "model", "classifier"}

(***************************************************************************)
(* PDFMasker.is_overlapping_full_page:                                     *)
(* image_width > 0.8 * width and image_height > 0.8 * height, on integers  *)
(* (0.8 * n in doubles is 4n/5 exactly whenever that is an integer).       *)
(***************************************************************************)
IsOverlappingFullPageOrEqual(size, width, height) ==
    10 * size[1] >= 8 * width /\ 10 * size[2] >= 8 * height

IsOverlappingFullPage(size, width, height) ==
    10 * size[1] > 8 * width /\ 10 * size[2] > 8 * height

(***************************************************************************)
(* The documents: an image object is what extract_image returns for an     *)
(* xref (smask is the xref of its soft mask, or 0).                        *)
(***************************************************************************)
Xrefs == {1, 2}

ImageObj(size, ext, smask) ==
    [width |-> size[1], height |-> size[2], ext |-> ext, smask |-> smask,
     image |-> [format |-> ext, size |-> size, filled |-> <<>>, outlines |-> <<>>,
                encoder |-> "producer"]]

ImageObjs ==
    { ImageObj(<<10, 10>>, "jpeg", 0),
      ImageObj(<<10, 10>>, "jpeg", 7),
      ImageObj(<<4, 4>>, "png", 7),
      ImageObj(<<8, 10>>, "gif", 7) }

\* <<mediabox.width, mediabox.height>>
PageSizes == {<<10, 10>>, <<5, 12>>}

\* line 50: the condition of the continue
SkipsAnySoftMask(image_obj) == image_obj.smask # 0

HasForeignSoftMask(image_obj) ==
    image_obj.smask # 0 /\ ~(image_obj.ext = "png" \/ image_obj.ext = "gif")

\* line 61: the condition of replace_image
ShouldReplaceAlways(amount_of_masks) == amount_of_masks >= 0

ShouldReplace(amount_of_masks) == amount_of_masks > 0

\* page.replace_image(xref, pixmap=fitz.Pixmap(result)): the object at xref
\* becomes the pixmap, stored without a soft mask and extracted as png
ReplaceImage(xrefs, xref, result) ==
    [xrefs EXCEPT ![xref] = [width |-> result.size[1], height |-> result.size[2],
                             ext |-> "png", smask |-> 0, image |-> result]]

(***************************************************************************)
(* The routes of app/routes/masking.py                                     *)
(***************************************************************************)
ALLOWED_IMAGE_TYPES == {"image/jpeg", "image/png", "image/gif"}

ContentTypes == ALLOWED_IMAGE_TYPES \cup {"application/pdf", "text/plain"}

\* request.args.get('gizmos', default=False, type=bool)
GizmosArgs == {None, "false"}

Gizmos(req) == IF req.gizmos = None THEN FALSE ELSE req.gizmos # ""

Requests(endpoint) ==
    {[endpoint |-> endpoint, has_file |-> FALSE, filename |-> None,
      content_type |-> None, gizmos |-> g] : g \in GizmosArgs} \cup
    [endpoint : {endpoint}, has_file : {TRUE}, filename : {"", "cv"},
     content_type : ContentTypes, gizmos : GizmosArgs]

NoFileUploadedIgnoringName(req) == ~req.has_file

\* 'file' not in request.files or request.files['file'].filename == ''
NoFileUploaded(req) == ~req.has_file \/ req.filename = ""

Json(message, code) ==
    [status |-> code, body |-> [success |-> FALSE, message |-> message, code |-> code]]

SendFile(data, req) ==
    [status |-> 200,
     body |-> [data |-> data, mimetype |-> req.content_type, download_name |-> req.filename]]

\* an exception no handler catches: Flask answers 500
Unhandled == [status |-> 500, body |-> [html |-> "Internal Server Error"]]

\* mimetypes.guess_extension(file.content_type)
GuessExtension(content_type) ==
    CASE content_type = "image/jpeg" -> ".jpg"
      [] content_type = "image/png" -> ".png"
      [] content_type = "image/gif" -> ".gif"
      [] OTHER -> None

\* what the collaborators answer to one mask_data call made for a request:
\* at most one prediction, at most one face per classifier, and a fault only
\* in a step the call reaches
Oracles(size, allow_full_mask) ==
    UNION {
      LET rects == FindRectsOfInterest(size, allow_full_mask, boxes).rects
      IN  {[fault |-> f, boxes |-> boxes, faces |-> faces] :
             f \in {"none"} \cup
                   (IF boxes = <<>> THEN {"decode"} ELSE {}) \cup
                   (IF boxes = <<>> /\ ~allow_full_mask THEN {"model"} ELSE {}) \cup
                   (IF boxes # <<>> /\ rects # <<>> THEN {"classifier"} ELSE {}),
             faces \in {fs \in FacesFor(rects, size, {NumClassifiers}) :
                          \A i \in DOMAIN fs : \A c \in Classifiers : Len(fs[i][c]) <= 1}} :
      boxes \in IF allow_full_mask THEN {<<>>} ELSE {<<>>, <<MakeBox(<<2, 6>>, <<2, 6>>)>>}}

Init ==
    /\ pc = "idle"
    /\ request = Nil
    /\ response = Nil
    /\ masker = Nil
    /\ pdf_document = Nil
    /\ page = Nil
    /\ call = Nil

\* mask_pdf up to the return of fitz.open in PDFMasker.mask_data (line 36)
MaskPdfRequest ==
    /\ pc = "idle"
    /\ \E req \in Requests("pdf") :
         /\ request' = req
         /\ IF NoFileUploaded(req)
            THEN /\ response' = Json("No file uploaded.", 400)
                 /\ pc' = "responded"
                 /\ UNCHANGED <<masker, pdf_document>>
            ELSE IF req.content_type # "application/pdf"
            THEN /\ response' = Json("Unsupported file type. Only PDF files are allowed.", 415)
                 /\ pc' = "responded"
                 /\ UNCHANGED <<masker, pdf_document>>
            ELSE /\ masker' = [constructed |-> {"ImageMasker", "PDFMasker"},
                               mask_file |-> 1]
                 /\ \E xrefs \in [Xrefs -> ImageObjs], n \in 1..MaxPages :
                      pdf_document' = [xrefs |-> xrefs, original |-> xrefs, len |-> n,
                                       page_number |-> 0, passed |-> {}, positive |-> {},
                                       saved |-> 0,
                                       closed |-> FALSE]
                 /\ pc' = "pages"
                 /\ UNCHANGED response
    /\ UNCHANGED <<page, call>>

\* lines 37-41: the next page is loaded, with its size and its image list
LoadPage ==
    /\ pc = "pages"
    /\ pdf_document.page_number < pdf_document.len
    /\ \E size \in PageSizes, image_list \in SeqsUpTo(Xrefs, MaxImagesPerPage) :
         page' = [number |-> pdf_document.page_number, width |-> size[1],
                  height |-> size[2], image_list |-> image_list, img_index |-> 0]
    /\ pc' = "images"
    /\ UNCHANGED <<request, response, masker, pdf_document, call>>

\* lines 43-64: one pass of the loop over the page's images
ProcessImage ==
    /\ pc = "images"
    /\ page.img_index < Len(page.image_list)
    /\ LET xref == page.image_list[page.img_index + 1]
           image_obj == pdf_document.xrefs[xref]
           size == <<image_obj.width, image_obj.height>>
           overlapping == IsOverlappingFullPage(size, page.width, page.height)
           step == [fn |-> "PDFMasker.mask_data", page_number |-> page.number,
                    img_index |-> page.img_index, xref |-> xref, image_obj |-> image_obj,
                    \* again: this xref was handed to mask_data earlier in the call
                    again |-> xref \in pdf_document.passed]
       IN  IF HasForeignSoftMask(image_obj)
           THEN /\ call' = [step EXCEPT !.fn = "skipped"]
                /\ page' = [page EXCEPT !.img_index = @ + 1]
                /\ UNCHANGED <<pc, response, pdf_document>>
           ELSE \E oracle \in Oracles(size, ~overlapping) :
                  LET ret == MaskData(size, ".png", ~overlapping, Gizmos(request), oracle)
                      masked == [step EXCEPT !.fn = "masked"] @@
                                [allow_full_mask |-> ~overlapping, ret |-> ret,
                                 replaced |-> FALSE]
                      \* passed: the xrefs handed to mask_data so far; positive:
                      \* those for which it returned a count above zero
                      passed == [pdf_document EXCEPT
                                   !.passed = @ \cup {xref},
                                   !.positive = IF ~ret.raised /\ ret.count > 0
                                                THEN @ \cup {xref} ELSE @]
                  IN  IF ret.raised
                      THEN /\ call' = masked
                           /\ pdf_document' = passed
                           /\ response' = Unhandled
                           /\ pc' = "responded"
                           /\ UNCHANGED page
                      ELSE /\ IF ShouldReplace(ret.count)
                              THEN /\ pdf_document' =
                                        [passed EXCEPT
                                           !.xrefs = ReplaceImage(@, xref, ret.bytes)]
                                   /\ call' = [masked EXCEPT !.replaced = TRUE]
                              ELSE /\ pdf_document' = passed
                                   /\ call' = masked
                           /\ page' = [page EXCEPT !.img_index = @ + 1]
                           /\ UNCHANGED <<pc, response>>
    /\ UNCHANGED <<request, masker>>

\* line 37: the page's images are exhausted, on to the next page
EndPage ==
    /\ pc = "images"
    /\ page.img_index = Len(page.image_list)
    /\ pdf_document' = [pdf_document EXCEPT !.page_number = @ + 1]
    /\ pc' = "pages"
    /\ UNCHANGED <<request, response, masker, page, call>>

SaveAndCloseInsideLoop ==
    /\ pc = "pages"
    /\ pdf_document.page_number >= 1
    /\ pdf_document' = [pdf_document EXCEPT !.saved = @ + 1, !.closed = TRUE]
    /\ response' = SendFile(pdf_document.xrefs, request)
    /\ pc' = "responded"
    /\ UNCHANGED <<request, masker, page, call>>

\* lines 66-68, then mask_pdf's send_file
SaveAndClose ==
    /\ pc = "pages"
    /\ pdf_document.page_number = pdf_document.len
    /\ pdf_document' = [pdf_document EXCEPT !.saved = @ + 1, !.closed = TRUE]
    /\ response' = SendFile(pdf_document.xrefs, request)
    /\ pc' = "responded"
    /\ UNCHANGED <<request, masker, page, call>>

\* mask_image, with ImageMasker.mask_file
MaskImageRequest ==
    /\ pc = "idle"
    /\ \E req \in Requests("image") :
         /\ request' = req
         /\ IF NoFileUploaded(req)
            THEN /\ response' = Json("No file uploaded.", 400)
                 /\ UNCHANGED <<masker, call>>
            ELSE IF req.content_type \notin ALLOWED_IMAGE_TYPES
            THEN /\ response' =
                      Json("Unsupported file type. Only JPEG, PNG, and GIF images are allowed.", 415)
                 /\ UNCHANGED <<masker, call>>
            ELSE \E size \in ImageSizes :
                   \E oracle \in Oracles(size, FALSE) :
                     LET ret == MaskData(size, GuessExtension(req.content_type), FALSE,
                                         Gizmos(req), oracle)
                     IN  /\ masker' = [constructed |-> {"ImageMasker"}, mask_file |-> 1]
                         /\ call' = [fn |-> "mask_file", size |-> size, ret |-> ret]
                         /\ response' = IF ret.raised THEN Json(ret.why, 500)
                                        ELSE SendFile(ret.bytes, req)
    /\ pc' = "responded"
    /\ UNCHANGED <<pdf_document, page>>

Next ==
    \/ MaskPdfRequest
    \/ LoadPage
    \/ ProcessImage
    \/ EndPage
    \/ SaveAndClose
    \/ MaskImageRequest

Spec == Init /\ [][Next]_vars

(***************************************************************************)
(* Calls of the ImageMasker's methods on their own: the arguments are      *)
(* drawn when the call is made, the method runs in one step.               *)
(***************************************************************************)
Idle ==
    /\ request = Nil
    /\ response = Nil
    /\ masker = Nil
    /\ pdf_document = Nil
    /\ page = Nil

\* find_rects_of_interest(image, allow_full_mask)
InitRects ==
    /\ Idle
    /\ pc = "call"
    /\ \E size \in ImageSizes, allow_full_mask \in BOOLEAN :
         \E boxes \in SeqsUpTo(FineBoxes(size), MaxBoxes) :
           call = [fn |-> "find_rects_of_interest", size |-> size,
                   allow_full_mask |-> allow_full_mask, boxes |-> boxes, ret |-> Nil]

FindRectsCall ==
    /\ pc = "call"
    /\ call.fn = "find_rects_of_interest"
    /\ call' = [call EXCEPT
                  !.ret = FindRectsOfInterest(call.size, call.allow_full_mask, call.boxes)]
    /\ pc' = "returned"
    /\ UNCHANGED <<request, response, masker, pdf_document, page>>

SpecRects == InitRects /\ [][FindRectsCall]_vars

\* detect_faces(image) on a 4 x 4 crop
InitFaces ==
    /\ Idle
    /\ pc = "call"
    /\ \E results \in [Classifiers -> FaceLists(<<0, 0, 4, 4>>)] :
         call = [fn |-> "detect_faces", results |-> results, ret |-> Nil]

DetectFacesCall ==
    /\ pc = "call"
    /\ call.fn = "detect_faces"
    /\ call' = [call EXCEPT !.ret = DetectFaces(call.results)]
    /\ pc' = "returned"
    /\ UNCHANGED <<request, response, masker, pdf_document, page>>

SpecFaces == InitFaces /\ [][DetectFacesCall]_vars

\* mask_data(image_as_bytes, extension, allow_full_mask, should_draw_gizmos)
FirstAndLast == {1, NumClassifiers}

InitMask ==
    /\ Idle
    /\ pc = "call"
    /\ \E size \in ImageSizes, extension \in {".png", ".jpg"},
          allow_full_mask \in BOOLEAN, should_draw_gizmos \in BOOLEAN,
          fault \in Faults :
         \E boxes \in SeqsUpTo(CoarseBoxes(size), MaxBoxes) :
           /\ fault # "none" => Len(boxes) <= 1
           /\ allow_full_mask => boxes = <<>>
           /\ call = [fn |-> "mask_data", size |-> size, extension |-> extension,
                      allow_full_mask |-> allow_full_mask,
                      should_draw_gizmos |-> should_draw_gizmos,
                      fault |-> fault, boxes |-> boxes, faces |-> <<>>, ret |-> Nil]

MaskDataCall ==
    /\ pc = "call"
    /\ call.fn = "mask_data"
    /\ LET rects == FindRectsOfInterest(call.size, call.allow_full_mask, call.boxes).rects
       IN  \E faces \in FacesFor(rects, call.size, FirstAndLast) :
             call' = [call EXCEPT
                        !.faces = faces,
                        !.ret = MaskData(call.size, call.extension, call.allow_full_mask,
                                         call.should_draw_gizmos,
                                         [fault |-> call.fault, boxes |-> call.boxes,
                                          faces |-> faces])]
    /\ pc' = "returned"
    /\ UNCHANGED <<request, response, masker, pdf_document, page>>

SpecMask == InitMask /\ [][MaskDataCall]_vars

\* mask_areas(areas, image) on a decoded pixel buffer
Black == "black"

White == "white"

MatSizes == {<<3, 3>>, <<4, 2>>}

Pixels(size) == (0 .. size[1] - 1) \X (0 .. size[2] - 1)

\* decoded buffers: one colour throughout, or a black first column on white
Mats(size) ==
    {[size |-> size, px |-> [p \in Pixels(size) |-> c]] : c \in {White, Black}} \cup
    {[size |-> size, px |-> [p \in Pixels(size) |-> IF p[1] = 0 THEN Black ELSE White]]}

\* the areas detect_maskable_areas can hand over: non-empty and within the image
AreasWithin(size) ==
    {a \in (0 .. size[1] - 1) \X (0 .. size[2] - 1) \X (1 .. size[1]) \X (1 .. size[2]) :
       a[1] + a[3] <= size[1] /\ a[2] + a[4] <= size[2]}

\* cv2.rectangle(image, pt1, pt2, color, -1): the filled rectangle holds both
\* corners, and what falls outside the buffer is clipped
FilledRectangle(image, pt1, pt2, color) ==
    LET left == IF pt1[1] <= pt2[1] THEN pt1[1] ELSE pt2[1]
        right == IF pt1[1] <= pt2[1] THEN pt2[1] ELSE pt1[1]
        top == IF pt1[2] <= pt2[2] THEN pt1[2] ELSE pt2[2]
        bottom == IF pt1[2] <= pt2[2] THEN pt2[2] ELSE pt1[2]
    IN  [image EXCEPT !.px =
           [p \in DOMAIN image.px |->
              IF left <= p[1] /\ p[1] <= right /\ top <= p[2] /\ p[2] <= bottom
              THEN color ELSE image.px[p]]]

\* line 85
MaskArea(area, image) ==
    FilledRectangle(image, <<area[1], area[2]>>,
                    <<area[1] + area[3], area[2] + area[4]>>, Black)

\* lines 76-77
RECURSIVE MaskAreasFrom(_, _, _)
MaskAreasFrom(areas, image, i) ==
    IF i > Len(areas) THEN image
    ELSE MaskAreasFrom(areas, MaskArea(areas[i], image), i + 1)

MaskAreas(areas, image) == MaskAreasFrom(areas, image, 1)

InitAreas ==
    /\ Idle
    /\ pc = "call"
    /\ \E size \in MatSizes :
         \E image \in Mats(size), areas \in SeqsUpTo(AreasWithin(size), MaxBoxes) :
           call = [fn |-> "mask_areas", areas |-> areas, image |-> image, ret |-> Nil]

MaskAreasCall ==
    /\ pc = "call"
    /\ call.fn = "mask_areas"
    /\ call' = [call EXCEPT !.ret = MaskAreas(call.areas, call.image)]
    /\ pc' = "returned"
    /\ UNCHANGED <<request, response, masker, pdf_document, page>>

SpecAreas == InitAreas /\ [][MaskAreasCall]_vars

Returned(fn) == pc = "returned" /\ call.fn = fn

(***************************************************************************)
(* C4: find_rects_of_interest with allow_full_mask = true returns exactly  *)
(* one rectangle, (0, 0, imageWidth, imageHeight), whatever the model      *)
(* would predict for the image, and performs no model inference.           *)
(***************************************************************************)
C4_FullMaskOneRect ==
    (Returned("find_rects_of_interest") /\ call.allow_full_mask) =>
        /\ call.ret.rects = << <<0, 0, call.size[1], call.size[2]>> >>
        /\ call.ret.inferences = 0

C4_Witness ==
    /\ Returned("find_rects_of_interest")
    /\ call.allow_full_mask
    /\ Len(call.boxes) = MaxBoxes
    /\ call.size = <<8, 10>>

(***************************************************************************)
(* C7: with allow_full_mask = false, find_rects_of_interest returns the    *)
(* rounded rectangles of exactly those predictions whose width is at most  *)
(* 70% of the image width and whose height is at most 70% of the image     *)
(* height, in model output order; nothing else is dropped or merged.       *)
(***************************************************************************)
AtMost70(rect, size) ==
    /\ 10 * rect[3] <= 7 * size[1]
    /\ 10 * rect[4] <= 7 * size[2]

C7_KeepIffWithin70 ==
    (Returned("find_rects_of_interest") /\ ~call.allow_full_mask) =>
        LET rects == [i \in 1..Len(call.boxes) |-> BoxToRect(call.boxes[i])]
            Keep(r) == AtMost70(r, call.size)
        IN  /\ call.ret.rects = SelectSeq(rects, Keep)
            /\ call.ret.inferences = 1

\* a prediction too wide only, then twice the same prediction at exactly 70%
C7_Witness ==
    /\ Returned("find_rects_of_interest")
    /\ ~call.allow_full_mask
    /\ call.size = <<10, 10>>
    /\ Len(call.boxes) = 2
    /\ \/ /\ BoxToRect(call.boxes[1])[3] = 8
          /\ BoxToRect(call.boxes[1])[4] = 2
          /\ BoxToRect(call.boxes[2])[3] = 7
          /\ call.ret.rects = <<BoxToRect(call.boxes[2])>>
       \/ /\ call.boxes[1] = call.boxes[2]
          /\ BoxToRect(call.boxes[1])[3] = 7
          /\ Len(call.ret.rects) = 2

(***************************************************************************)
(* C8: detect_faces asks the classifiers in list order and stops at the    *)
(* first one with a non-empty answer: it returns exactly that answer, asks *)
(* no later classifier, and returns nothing only after asking them all.    *)
(***************************************************************************)
Matching(results) == {c \in DOMAIN results : results[c] # <<>>}

C8_FirstMatchWins ==
    Returned("detect_faces") =>
        LET M == Matching(call.results)
        IN  IF M = {}
            THEN /\ call.ret.rects = <<>>
                 /\ call.ret.invoked = [i \in 1..NumClassifiers |-> i]
            ELSE LET first == CHOOSE c \in M : \A d \in M : c <= d
                 IN  /\ call.ret.rects = call.results[first]
                     /\ call.ret.invoked = [i \in 1..first |-> i]

\* classifier 3 is the first to match, classifier 5 would answer otherwise
C8_Witness ==
    /\ Returned("detect_faces")
    /\ Matching(call.results) = {3, 5}
    /\ call.results[3] # call.results[5]
    /\ call.ret.rects = call.results[3]

(***************************************************************************)
(* C5: in every call of mask_data that returns, the maskable areas are     *)
(* the areas of interest for whose crop some classifier answered with at   *)
(* least one rectangle, in proposal order and unmodified, and the count    *)
(* returned is their number, with and without gizmos.                      *)
(***************************************************************************)
RECURSIVE Confirmed(_, _)
Confirmed(rects, faces) ==
    IF rects = <<>> THEN <<>>
    ELSE (IF \E c \in Classifiers : Len(Head(faces)[c]) >= 1
          THEN <<Head(rects)>> ELSE <<>>) \o Confirmed(Tail(rects), Tail(faces))

C5_AreasAreConfirmedProposals ==
    (Returned("mask_data") /\ ~call.ret.raised) =>
        /\ call.ret.areas = Confirmed(call.ret.areas_of_interest, call.faces)
        /\ \A i \in DOMAIN call.ret.areas :
             \E j \in DOMAIN call.ret.areas_of_interest :
               call.ret.areas[i] = call.ret.areas_of_interest[j]
        /\ call.ret.count = Len(call.ret.areas)

\* two proposals, only the second confirmed (by the last classifier), gizmos drawn
C5_Witness ==
    /\ Returned("mask_data")
    /\ ~call.ret.raised
    /\ call.should_draw_gizmos
    /\ Len(call.ret.areas_of_interest) = 2
    /\ Matching(call.faces[1]) = {}
    /\ Matching(call.faces[2]) = {NumClassifiers}
    /\ call.ret.areas = <<call.ret.areas_of_interest[2]>>
    /\ call.ret.count = 1

(***************************************************************************)
(* C6: every detected-feature rectangle that mask_data reports, translated *)
(* by the origin of its area of interest, lies within the image, whatever  *)
(* the model proposes (boxes starting before or ending after the image     *)
(* included) and whatever the classifiers find inside the crops.           *)
(***************************************************************************)
WithinImage(r, size) ==
    /\ 0 <= r[1]
    /\ 0 <= r[2]
    /\ r[1] + r[3] <= size[1]
    /\ r[2] + r[4] <= size[2]

MaskedStep == call # Nil /\ call.fn = "masked"

SkippedStep == call # Nil /\ call.fn = "skipped"

PdfServed ==
    /\ pc = "responded"
    /\ request.endpoint = "pdf"
    /\ response.status = 200

(***************************************************************************)
(* C1: page.replace_image is called for an image handed to                 *)
(* ImageMasker.mask_data iff the count returned is above zero: the call    *)
(* with a positive count leaves the masked bytes at the xref, the call     *)
(* with count zero leaves the object as it was, an image for which no      *)
(* call returned a positive count has its original bytes, and the          *)
(* document returned is the document so mutated.                           *)
(***************************************************************************)
C1_ReplaceIffMasks ==
    /\ (MaskedStep /\ ~call.ret.raised) =>
          /\ call.replaced <=> call.ret.count > 0
          /\ call.ret.count > 0 =>
               pdf_document.xrefs[call.xref].image = call.ret.bytes
          /\ call.ret.count = 0 =>
               pdf_document.xrefs[call.xref] = call.image_obj
    /\ pdf_document # Nil =>
          \A x \in Xrefs :
             x \notin pdf_document.positive =>
                pdf_document.xrefs[x] = pdf_document.original[x]
    /\ PdfServed => response.body.data = pdf_document.xrefs

\* the document is returned; xref 1 was replaced, and the last image, xref 2,
\* went through mask_data with count zero
C1_Witness ==
    /\ PdfServed
    /\ MaskedStep
    /\ call.xref = 2
    /\ ~call.ret.raised
    /\ call.ret.count = 0
    /\ pdf_document.positive = {1}
    /\ response.body.data[1].image.encoder = "cv2.imencode"
    /\ response.body.data[2].image.encoder = "producer"

(***************************************************************************)
(* C2: an embedded image is skipped (not handed to ImageMasker.mask_data,  *)
(* not replaced) exactly when its soft-mask flag is non-zero and its       *)
(* format is neither png nor gif; every other image is handed over.        *)
(***************************************************************************)
C2_SkipIffForeignSoftMask ==
    /\ (MaskedStep \/ SkippedStep) =>
          (SkippedStep <=>
             (call.image_obj.smask # 0 /\ call.image_obj.ext \notin {"png", "gif"}))
    /\ SkippedStep =>
          /\ pdf_document.xrefs[call.xref] = pdf_document.original[call.xref]
          /\ call.xref \notin pdf_document.passed
    /\ MaskedStep => call.xref \in pdf_document.passed

\* a soft-masked gif was handed over, then a soft-masked jpeg was skipped
C2_Witness ==
    /\ SkippedStep
    /\ call.image_obj.ext = "jpeg"
    /\ call.image_obj.smask # 0
    /\ \E x \in pdf_document.passed :
         /\ pdf_document.original[x].ext = "gif"
         /\ pdf_document.original[x].smask # 0

(***************************************************************************)
(* C3: the allow_full_mask flag handed to ImageMasker.mask_data is false   *)
(* exactly when the image is wider than 80% of the page width and higher   *)
(* than 80% of the page height; at exactly 80% the flag is true (and the   *)
(* call then proposes regions without the model).                          *)
(***************************************************************************)
C3_FullMaskUnlessPageCovering ==
    (MaskedStep /\ pc = "images" /\ call.page_number = page.number) =>
        /\ call.allow_full_mask =
             ~(10 * call.image_obj.width > 8 * page.width /\
               10 * call.image_obj.height > 8 * page.height)
        /\ ~call.ret.raised => (call.allow_full_mask <=> call.ret.inferences = 0)

\* an image as wide as 80% of the page, and higher than 80% of it
C3_Witness ==
    /\ MaskedStep
    /\ pc = "images"
    /\ call.page_number = page.number
    /\ 10 * call.image_obj.width = 8 * page.width
    /\ 10 * call.image_obj.height > 8 * page.height
    /\ call.allow_full_mask
    /\ ~call.ret.raised

(***************************************************************************)
(* C9: a failure while masking one embedded image does not abort           *)
(* PDFMasker.mask_data: once the masker was called for a request, the      *)
(* response is the serialized document.                                    *)
(***************************************************************************)
C9_FailureDoesNotAbort ==
    (pc = "responded" /\ request.endpoint = "pdf" /\ masker # Nil) =>
        /\ response.status = 200
        /\ pdf_document.saved = 1

(***************************************************************************)
(* C10: both routes decide the request before any masker exists: no file   *)
(* part or an empty filename gives 400 "No file uploaded."; otherwise a    *)
(* content type that is not allowed gives 415 with the route's message;    *)
(* a masker is constructed and called only when neither check fails.       *)
(***************************************************************************)
Allowed(endpoint) ==
    IF endpoint = "pdf" THEN {"application/pdf"}
    ELSE {"image/jpeg", "image/png", "image/gif"}

Unsupported(endpoint) ==
    IF endpoint = "pdf" THEN "Unsupported file type. Only PDF files are allowed."
    ELSE "Unsupported file type. Only JPEG, PNG, and GIF images are allowed."

C10_ValidationBeforeMasking ==
    request # Nil =>
        IF ~request.has_file \/ request.filename = ""
        THEN /\ response = [status |-> 400,
                            body |-> [success |-> FALSE, message |-> "No file uploaded.",
                                      code |-> 400]]
             /\ masker = Nil
        ELSE IF request.content_type \notin Allowed(request.endpoint)
        THEN /\ response = [status |-> 415,
                            body |-> [success |-> FALSE,
                                      message |-> Unsupported(request.endpoint),
                                      code |-> 415]]
             /\ masker = Nil
        ELSE /\ masker # Nil
             /\ masker.mask_file = 1

\* a file with an empty filename and an allowed content type
C10_Witness ==
    /\ pc = "responded"
    /\ request.has_file
    /\ request.filename = ""
    /\ request.content_type \in Allowed(request.endpoint)
    /\ response.status = 400

(***************************************************************************)
(* C11: in one call of mask_data redaction and diagnostics exclude each    *)
(* other: with should_draw_gizmos nothing is filled and the outlines of    *)
(* the areas of interest, the maskable areas and the detected features     *)
(* are drawn; without it every maskable area is filled and no outline is   *)
(* drawn; the count returned does not depend on the mode.                  *)
(***************************************************************************)
C11_GizmosExcludeMasking ==
    (Returned("mask_data") /\ ~call.ret.raised) =>
        /\ call.should_draw_gizmos =>
             /\ call.ret.bytes.filled = <<>>
             /\ call.ret.bytes.outlines =
                  <<call.ret.areas_of_interest, call.ret.areas, call.ret.detected_faces>>
        /\ ~call.should_draw_gizmos =>
             /\ call.ret.bytes.filled = call.ret.areas
             /\ call.ret.bytes.outlines = <<>>
        /\ call.ret.count = Len(Confirmed(call.ret.areas_of_interest, call.faces))

\* gizmos drawn for a call with a maskable area
C11_Witness ==
    /\ Returned("mask_data")
    /\ ~call.ret.raised
    /\ call.should_draw_gizmos
    /\ call.ret.count >= 1
    /\ Len(call.ret.areas_of_interest) > call.ret.count
    /\ call.ret.bytes.filled = <<>>

(***************************************************************************)
(* C12: mask_data re-encodes to the format of the image it was given: on   *)
(* both call paths (mask_file for an upload, PDFMasker.mask_data for an    *)
(* embedded jpeg, png or gif) the format of the bytes returned is the      *)
(* format of the input bytes.                                              *)
(***************************************************************************)
\* the format cv2.imencode writes for an extension
FormatOfExtension(extension) ==
    CASE extension = ".jpg" -> "jpeg"
      [] extension = ".png" -> "png"
      [] extension = ".gif" -> "gif"
      [] OTHER -> None

\* the format of an upload whose content type says what it holds
FormatOfUpload(content_type) ==
    CASE content_type = "image/jpeg" -> "jpeg"
      [] content_type = "image/png" -> "png"
      [] content_type = "image/gif" -> "gif"
      [] OTHER -> None

C12_SameFormat ==
    /\ (MaskedStep /\ ~call.ret.raised) =>
          FormatOfExtension(call.ret.bytes.format) = call.image_obj.image.format
    /\ (call # Nil /\ call.fn = "mask_file" /\ ~call.ret.raised) =>
          FormatOfExtension(call.ret.bytes.format) = FormatOfUpload(request.content_type)

(***************************************************************************)
(* C13: PDFMasker.mask_data takes the pages in increasing order and the    *)
(* images of a page in the order of its image list, one at a time; the     *)
(* document is serialized once, after the last image of the last page      *)
(* (so nothing is replaced afterwards), and closed before the call         *)
(* returns.                                                                *)
(***************************************************************************)
C13_InOrderSavedOnce ==
    pdf_document # Nil =>
        /\ pdf_document.saved \in {0, 1}
        /\ pdf_document.closed <=> pdf_document.saved = 1
        /\ pc = "images" =>
             /\ page.number = pdf_document.page_number
             /\ page.number < pdf_document.len
        /\ (MaskedStep \/ SkippedStep) =>
             /\ call.page_number <= pdf_document.page_number
             /\ (pc = "images" /\ call.page_number = page.number) =>
                  /\ call.img_index + 1 = page.img_index
                  /\ call.xref = page.image_list[call.img_index + 1]
        /\ pdf_document.saved = 1 =>
             /\ pc = "responded"
             /\ pdf_document.page_number = pdf_document.len
             /\ page.number = pdf_document.len - 1
             /\ page.img_index = Len(page.image_list)
             /\ response.status = 200
             /\ response.body.data = pdf_document.xrefs
        /\ (pc = "responded" /\ response.status = 200) => pdf_document.closed

\* two pages of two images each, the last image replaced, the document returned
C13_Witness ==
    /\ PdfServed
    /\ pdf_document.len = 2
    /\ pdf_document.saved = 1
    /\ page.number = 1
    /\ Len(page.image_list) = 2
    /\ MaskedStep
    /\ call.page_number = 1
    /\ call.img_index = 1
    /\ call.replaced
    /\ pdf_document.passed = {1, 2}

(***************************************************************************)
(* C14: after mask_areas, every pixel (px, py) with x <= px < x + w and    *)
(* y <= py < y + h for some area (x, y, w, h) is black, and every pixel    *)
(* outside all the areas has the value it had in the decoded buffer.       *)
(***************************************************************************)
InArea(p, area) ==
    /\ area[1] <= p[1] /\ p[1] < area[1] + area[3]
    /\ area[2] <= p[2] /\ p[2] < area[2] + area[4]

InSomeArea(p, areas) == \E i \in DOMAIN areas : InArea(p, areas[i])

C14_OnlyAreasBlackened ==
    Returned("mask_areas") =>
        \A p \in Pixels(call.image.size) :
            IF InSomeArea(p, call.areas)
            THEN call.ret.px[p] = Black
            ELSE call.ret.px[p] = call.image.px[p]

(***************************************************************************)
(* C15: within one PDFMasker.mask_data call an image object (xref) is      *)
(* handed to ImageMasker.mask_data at most once, however often it is       *)
(* enumerated; an image already replaced by its masked version is never    *)
(* extracted and masked again.                                             *)
(***************************************************************************)
C15_EachImageMaskedOnce ==
    MaskedStep =>
        /\ ~call.again
        /\ call.image_obj.image.encoder # "cv2.imencode"

====
